---- MODULE Spec2Model ----
(***************************************************************************)
(* Model of the gesture recognition engine (engine.py): the configuration  *)
(* validator, the PerformanceMonitor sliding window and the                 *)
(* GestureRecognitionEngine switch policy.                                  *)
(*                                                                         *)
(* Python dicts are functions whose DOMAIN is the set of keys present, so   *)
(* dict.get(k, default) is Get(d, k, default).  Python's None is the string *)
(* NoneVal.  All metric numbers (samples, thresholds, sums) are fixed-point *)
(* tenths, so the default min_fps 0.8 is the integer 8 and a latency of     *)
(* 100 ms is 1000; an average is the exact rational <<sum, count>>.         *)
(***************************************************************************)
EXTENDS Integers, Sequences, FiniteSets, TLC

VARIABLES
    config,            \* the configuration mapping under validation / held by the engine
    pc,                \* position of the caller: "start", "done" (validate_config has
                       \* returned) or "ready" (an engine has been constructed)
    valid_ret,         \* value returned by validate_config
    thresholds,        \* PerformanceMonitor.thresholds
    window_size,       \* PerformanceMonitor.window_size
    history,           \* PerformanceMonitor.history: four lists
    fed,               \* every sample passed to record, in order (observer)
    engine,            \* the attributes of the GestureRecognitionEngine object: current_approach,
                       \* performance_monitor and, when assigned, last_switch_time and switch_cooldown
    clock,             \* the value time.time() returns now
    call,              \* the most recent switch_approach call and its outcome (observer)
    key_order,         \* the keys of config['approaches'] in the mapping's insertion order
    op,                \* the most recent other engine operation and its outcome (observer)
    invoked,           \* the approaches whose entry point has been called, in order (observer)
    proc,              \* the engine process started through main: position and exit code
    cam                \* a capture script: position in its loop, camera handle, pending key,
                       \* images saved, attendance rows written

vars == <<config, pc, valid_ret, thresholds, window_size, history, fed,
          engine, clock, call, key_order, op, invoked, proc, cam>>

\* the variables the validator, the monitor and switch_approach never touch
others == <<key_order, op, invoked, proc, cam>>

----------------------------------------------------------------------------
(* Python values *)

NoneVal == "<None>"

EmptyDict == [k \in {} |-> 0]

\* dict.get(k, default)
Get(d, k, default) == IF k \in DOMAIN d THEN d[k] ELSE default

\* d[k] = v on a dict or on the attributes of an object
Put(d, k, v) == [x \in DOMAIN d \cup {k} |-> IF x = k THEN v ELSE d[x]]

----------------------------------------------------------------------------
(* validate_config *)

\* the approach identifiers the validator accepts in static mode
SupportedApproaches == {"mediapipe", "smolvlm"}

\* the modes the validator accepts
SupportedModes == {"static", "dynamic"}

\* lines 55-57 with the membership test replaced by a test for presence only
mode_invalid_presence_only(c) ==
    Get(c, "mode", NoneVal) = NoneVal

\* config.get('mode') not in ['static', 'dynamic']
mode_invalid(c) ==
    Get(c, "mode", NoneVal) \notin SupportedModes

\* approach not in ['mediapipe', 'smolvlm']
approach_unsupported(c) ==
    Get(c, "approach", NoneVal) \notin SupportedApproaches

\* lines 67-69 with the lookup in 'approaches' dropped
approach_unconfigured_skipped(c) ==
    FALSE

\* approach not in config.get('approaches', {})
approach_unconfigured(c) ==
    Get(c, "approach", NoneVal) \notin DOMAIN Get(c, "approaches", EmptyDict)

\* lines 73-76 with an absent 'enabled' key read as enabled
dynamic_disabled_default_on(c) ==
    ~ Get(Get(c, "dynamic", EmptyDict), "enabled", TRUE)

\* not config.get('dynamic', {}).get('enabled')
dynamic_disabled(c) ==
    ~ Get(Get(c, "dynamic", EmptyDict), "enabled", FALSE)

\* validate_config(config): the early returns in source order
validate_config(c) ==
    IF mode_invalid(c) THEN FALSE
    ELSE IF Get(c, "mode", NoneVal) = "static" /\ approach_unsupported(c) THEN FALSE
    ELSE IF Get(c, "mode", NoneVal) = "static" /\ approach_unconfigured(c) THEN FALSE
    ELSE IF Get(c, "mode", NoneVal) = "dynamic" /\ dynamic_disabled(c) THEN FALSE
    ELSE TRUE

----------------------------------------------------------------------------
(* PerformanceMonitor *)

MetricKeys == {"latency_ms", "cpu_percent", "memory_mb", "fps"}

\* a whole number of the source as fixed-point tenths
Tenths(x) == x * 10

\* defaults of the thresholds.get calls in should_switch; the last one is 0.8 in tenths
DefaultMaxLatencyMs == 1000
DefaultMaxCpuPercent == 80
DefaultMaxMemoryMb == 2000
DefaultMinFpsTenths == 8

\* default of the window_size parameter and of 'evaluation_window'
DefaultWindowSize == 5

\* default of metrics.get(key, 0) in record
DefaultMetric == 0

RECURSIVE Sum(_)
\* sum(list)
Sum(s) == IF s = <<>> THEN 0 ELSE Head(s) + Sum(Tail(s))

\* list[-n:] as Python evaluates it: the last n items for n > 0, and
\* list[k:] with k = -n >= 0 otherwise (so list[-0:] is the whole list)
NegSlice(s, n) ==
    IF n > 0
    THEN IF n >= Len(s) THEN s ELSE SubSeq(s, Len(s) - n + 1, Len(s))
    ELSE SubSeq(s, 1 - n, Len(s))

\* the trim of record keeping the oldest window_size items instead
TrimKeepOldest(s, n) ==
    IF Len(s) > n THEN SubSeq(s, 1, n) ELSE s

\* if len(history[key]) > window_size: history[key] = history[key][-window_size:]
Trim(s, n) ==
    IF Len(s) > n THEN NegSlice(s, n) ELSE s

\* PerformanceMonitor.__init__: four empty lists
EmptyHistory == [k \in MetricKeys |-> <<>>]

\* PerformanceMonitor.record(metrics): the new value of history
record(h, n, metrics) ==
    [k \in MetricKeys |-> Trim(Append(h[k], Get(metrics, k, DefaultMetric)), n)]

\* sum(list) / len(list) if list else 0, as the exact rational <<numerator, denominator>>
Average(s) == IF s # <<>> THEN <<Sum(s), Len(s)>> ELSE <<0, 1>>

\* PerformanceMonitor.get_average_metrics()
get_average_metrics(h) == [k \in MetricKeys |-> Average(h[k])]

\* average > limit and average < limit on exact rationals (denominator > 0)
Exceeds(avg, limit) == avg[1] > limit * avg[2]
Below(avg, limit) == avg[1] < limit * avg[2]

\* the four threshold tests with >= and <= in place of > and <
any_threshold_breached_inclusive(avg, th) ==
    \/ ~ Below(avg["latency_ms"], Get(th, "max_latency_ms", Tenths(DefaultMaxLatencyMs)))
    \/ ~ Below(avg["cpu_percent"], Get(th, "max_cpu_percent", Tenths(DefaultMaxCpuPercent)))
    \/ ~ Below(avg["memory_mb"], Get(th, "max_memory_mb", Tenths(DefaultMaxMemoryMb)))
    \/ ~ Exceeds(avg["fps"], Get(th, "min_fps", DefaultMinFpsTenths))

\* lines 123-130: any of the four threshold tests
any_threshold_breached(avg, th) ==
    \/ Exceeds(avg["latency_ms"], Get(th, "max_latency_ms", Tenths(DefaultMaxLatencyMs)))
    \/ Exceeds(avg["cpu_percent"], Get(th, "max_cpu_percent", Tenths(DefaultMaxCpuPercent)))
    \/ Exceeds(avg["memory_mb"], Get(th, "max_memory_mb", Tenths(DefaultMaxMemoryMb)))
    \/ Below(avg["fps"], Get(th, "min_fps", DefaultMinFpsTenths))

\* should_switch without the cold-start test of lines 117-118
should_switch_no_warmup(h, n, th) ==
    any_threshold_breached(get_average_metrics(h), th)

\* PerformanceMonitor.should_switch()
should_switch(h, n, th) ==
    IF Len(h["latency_ms"]) < n THEN FALSE
    ELSE any_threshold_breached(get_average_metrics(h), th)

----------------------------------------------------------------------------
(* GestureRecognitionEngine *)

\* default of 'switch_cooldown_seconds'
DefaultSwitchCooldown == 10

\* GestureRecognitionEngine.__init__: the attributes it assigns
EngineInit(c) ==
    IF Get(c, "mode", NoneVal) = "dynamic"
    THEN [current_approach |-> NoneVal,
          performance_monitor |-> "PerformanceMonitor",
          last_switch_time |-> 0,
          switch_cooldown |-> Get(Get(c, "dynamic", EmptyDict),
                                  "switch_cooldown_seconds", DefaultSwitchCooldown)]
    ELSE [current_approach |-> NoneVal,
          performance_monitor |-> NoneVal]

\* the thresholds and window_size __init__ passes to PerformanceMonitor
MonitorThresholds(c) ==
    Get(Get(c, "dynamic", EmptyDict), "performance_thresholds", EmptyDict)
MonitorWindow(c) ==
    Get(Get(c, "dynamic", EmptyDict), "evaluation_window", DefaultWindowSize)

\* GestureRecognitionEngine.get_available_approaches(), as the set of the list's items
get_available_approaches(c) == DOMAIN Get(c, "approaches", EmptyDict)

\* the cooldown test with <= in place of <
on_cooldown_inclusive(e, current_time) ==
    current_time - e["last_switch_time"] <= e["switch_cooldown"]

\* current_time - self.last_switch_time < self.switch_cooldown
on_cooldown(e, current_time) ==
    current_time - e["last_switch_time"] < e["switch_cooldown"]

\* a rejection that has already stored the target
rejected_after_assignment(e, to_approach) ==
    Put(e, "current_approach", to_approach)

\* the attributes after a return False of lines 160 and 167: nothing is assigned
rejected(e, to_approach) == e

\* the success path without the update of last_switch_time
accepted_without_timestamp(e, c, to_approach, later) ==
    Put(e, "current_approach", to_approach)

\* lines 170-173: the attributes after a successful switch; later is the
\* second time.time() reading
accepted(e, c, to_approach, later) ==
    IF Get(c, "mode", NoneVal) = "dynamic"
    THEN Put(Put(e, "current_approach", to_approach), "last_switch_time", later)
    ELSE Put(e, "current_approach", to_approach)

\* GestureRecognitionEngine.switch_approach: the return value and the
\* attributes afterwards; reading an attribute that was never assigned raises
switch_approach(e, c, to_approach, current_time, later) ==
    IF to_approach \notin get_available_approaches(c)
    THEN [ret |-> FALSE, raised |-> FALSE, self |-> rejected(e, to_approach)]
    ELSE IF Get(c, "mode", NoneVal) = "dynamic"
              /\ ~ ({"last_switch_time", "switch_cooldown"} \subseteq DOMAIN e)
    THEN [ret |-> FALSE, raised |-> TRUE, self |-> e]
    ELSE IF Get(c, "mode", NoneVal) = "dynamic" /\ on_cooldown(e, current_time)
    THEN [ret |-> FALSE, raised |-> FALSE, self |-> rejected(e, to_approach)]
    ELSE [ret |-> TRUE, raised |-> FALSE, self |-> accepted(e, c, to_approach, later)]

\* [a for a in available_approaches if a != self.current_approach]
other_approaches(e, keys) ==
    SelectSeq(keys, LAMBDA a : a # e["current_approach"])

\* the choice of line 185 taking the last candidate instead of the first
pick_other_last(candidates) == candidates[Len(candidates)]

\* candidates[0] of line 185, for a non-empty list
pick_other(candidates) == candidates[1]

\* GestureRecognitionEngine.should_switch_dynamically(): the value returned and
\* the exception raised; keys is get_available_approaches() in order, and
\* [...][0] on an empty list raises IndexError
should_switch_dynamically(e, c, keys, h, n, th) ==
    IF Get(c, "mode", NoneVal) # "dynamic" \/ e["performance_monitor"] = NoneVal
    THEN [ret |-> NoneVal, exc |-> "none"]
    ELSE IF should_switch(h, n, th)
    THEN IF other_approaches(e, keys) = <<>>
         THEN [ret |-> NoneVal, exc |-> "IndexError"]
         ELSE [ret |-> pick_other(other_approaches(e, keys)), exc |-> "none"]
    ELSE [ret |-> NoneVal, exc |-> "none"]

\* what importing a module and what calling its entry point can do: finish,
\* raise ImportError or another Exception, or raise one of the BaseExceptions
\* SystemExit (sys.exit in the module) and KeyboardInterrupt
ImportOutcomes == {"ok", "ImportError", "Exception", "SystemExit", "KeyboardInterrupt"}
RunOutcomes == {"return", "Exception", "SystemExit", "KeyboardInterrupt"}

\* the exceptions the two except clauses of execute_static_mode catch
CaughtByExecute == {"ImportError", "Exception"}

\* approach_config.get('module') of the configured approach
resolved_module(c, approach) ==
    Get(Get(Get(c, "approaches", EmptyDict), approach, EmptyDict), "module", NoneVal)

\* the entry points called when every registered approach is run in turn
entry_points_all(approach, keys) == keys

\* main_func() of line 218: the entry point of the configured approach, once
entry_points_called(approach, keys) == <<approach>>

\* the assignment of current_approach also resetting the switch timer
with_current_approach_and_timer(e, approach) ==
    [x \in DOMAIN e |-> IF x = "current_approach" THEN approach
                        ELSE IF x = "last_switch_time" THEN 0 ELSE e[x]]

\* self.current_approach = approach of lines 193 and 230
with_current_approach(e, approach) == Put(e, "current_approach", approach)

\* GestureRecognitionEngine.execute_static_mode(): the attributes afterwards,
\* the entry points called and the exception that leaves the method
execute_static_mode(e, c, keys, imported, has_function, ran) ==
    LET approach == Get(c, "approach", NoneVal)
        self == with_current_approach(e, approach)
    IN  IF resolved_module(c, approach) = NoneVal
        THEN [self |-> self, called |-> <<>>, exc |-> "none"]
        ELSE IF imported # "ok"
        THEN [self |-> self, called |-> <<>>,
              exc |-> IF imported \in CaughtByExecute THEN "none" ELSE imported]
        ELSE IF ~ has_function
        THEN [self |-> self, called |-> <<>>, exc |-> "none"]
        ELSE [self |-> self, called |-> entry_points_called(approach, keys),
              exc |-> IF ran = "return" \/ ran \in CaughtByExecute THEN "none" ELSE ran]

\* default of config.get('approach', 'mediapipe') in execute_dynamic_mode
DefaultApproach == "mediapipe"

\* GestureRecognitionEngine.execute_dynamic_mode(): line 230, then execute_static_mode
execute_dynamic_mode(e, c, keys, imported, has_function, ran) ==
    execute_static_mode(with_current_approach(e, Get(c, "approach", DefaultApproach)),
                        c, keys, imported, has_function, ran)

\* GestureRecognitionEngine.execute(): dispatch on the mode; sys.exit(1) otherwise
execute(e, c, keys, imported, has_function, ran) ==
    IF Get(c, "mode", NoneVal) = "static"
    THEN execute_static_mode(e, c, keys, imported, has_function, ran)
    ELSE IF Get(c, "mode", NoneVal) = "dynamic"
    THEN execute_dynamic_mode(e, c, keys, imported, has_function, ran)
    ELSE [self |-> e, called |-> <<>>, exc |-> "SystemExit"]

\* dict.setdefault(k, {}) in place of dict.get(k, {}): the key is stored
config_after_setdefault(c, k) == Put(c, k, Get(c, k, EmptyDict))

\* the mapping after config.get(k, {}): a read leaves it as it was
config_after_get(c, k) == c

\* what load_config finds at the path: no file, a file that is not JSON, or
\* a file that parses
FileStates == {"missing", "invalid_json", "parsed"}

\* load_config(): whether the file's content is returned; sys.exit(1) otherwise
load_config_returns(file) == file = "parsed"

\* a process that has ended: sys.exit(code) or an uncaught exception ends it
\* with a non-zero code, a return from main() ends it with 0
exited(file, code, returned) ==
    [pc |-> "exited", file |-> file, exit |-> code, returned |-> returned]

\* main() with no except clause for KeyboardInterrupt: the interpreter ends
\* the process with the interrupt's status
main_after_execute_uncaught_interrupt(file, exc) ==
    IF exc = "KeyboardInterrupt" THEN exited(file, 130, FALSE)
    ELSE IF exc = "SystemExit" THEN exited(file, 1, FALSE)
    ELSE exited(file, 0, TRUE)

\* main() after engine.execute(): KeyboardInterrupt and Exception are caught
\* and main returns; SystemExit, raised by sys.exit(1) in execute or in an
\* approach module, is not caught
main_after_execute(file, exc) ==
    IF exc = "SystemExit" THEN exited(file, 1, FALSE)
    ELSE exited(file, 0, TRUE)

\* the scripts that open the camera and loop over its frames
GestureScripts == {"gesture_recognition.py", "gesture_recognition_smolvlm_only.py"}
CameraScripts == {"run.py", "detect.py", "register_fac.py"} \cup GestureScripts

\* what cv2.waitKey can return: nothing, 'q', ESC (27), SPACE (32), another key
Keys == {"q", "esc", "space", "other"}

\* the key that breaks the loop: ESC in register_face, 'q' elsewhere
quit_key(script) == IF script = "register_fac.py" THEN "esc" ELSE "q"

\* detect.py does not test cap.isOpened() before its loop; the others leave
opened_is_checked(script) == script # "detect.py"

\* the statements after the loop, or the finally block: release(), once
release_and_exit(c) == [c EXCEPT !.pc = "exited", !.releases = @ + 1]

\* an exception raised inside the loop (a failing call, Ctrl-C): the gesture
\* scripts release in a finally block, the other scripts have none
exit_by_exception(c) ==
    IF c.script \in GestureScripts
    THEN [release_and_exit(c) EXCEPT !.raised = TRUE]
    ELSE [c EXCEPT !.pc = "exited", !.raised = TRUE]

\* cv2.waitKey(1) and the test on it: the pending key is taken; the quit key
\* breaks the loop
wait_key(c) ==
    IF c.key = quit_key(c.script)
    THEN release_and_exit([c EXCEPT !.key = "none"])
    ELSE [c EXCEPT !.key = "none"]

\* one iteration of the loop of run.py and of detect.py
frame_loop(c, read_ok, raises) ==
    IF ~ read_ok THEN release_and_exit(c)
    ELSE IF raises THEN exit_by_exception(c)
    ELSE wait_key([c EXCEPT !.shown = TRUE])

\* a capture on SPACE whatever the number of faces detected
captures_any_faces(key, one_face) == key = "space"

\* key == 32 and len(faces) == 1: the frame is saved and counted
captures(key, one_face) == key = "space" /\ one_face

\* one iteration of the loop of register_face, and the loop test after it;
\* saved lists the counts in the names '<name>_<count>.jpg' written so far
register_loop(c, read_ok, raises, one_face) ==
    IF ~ read_ok THEN release_and_exit(c)
    ELSE IF raises THEN exit_by_exception(c)
    ELSE IF c.key = "esc" THEN release_and_exit([c EXCEPT !.key = "none", !.shown = TRUE])
    ELSE LET captured == captures(c.key, one_face)
             after == [c EXCEPT !.key = "none", !.shown = TRUE,
                                !.saved = IF captured THEN Append(@, c.count) ELSE @,
                                !.count = IF captured THEN @ + 1 ELSE @]
         IN  IF after.count < after.num_images THEN after ELSE release_and_exit(after)

\* one iteration of the loop of the two gesture scripts: a frame is read when
\* the interval has elapsed; a failed read goes back to the top of the loop
gesture_loop(c, due, read_ok, raises) ==
    IF due /\ ~ read_ok THEN c
    ELSE IF raises THEN exit_by_exception(c)
    ELSE wait_key(IF due THEN [c EXCEPT !.shown = TRUE] ELSE c)

\* COOLDOWN of run.py, in seconds
COOLDOWN == 60

\* the name given to a face that matches no known encoding
Unknown == "Unknown"

\* the cooldown test with >= in place of >
cooldown_over_inclusive(last_logged, name, current_time) ==
    name \notin DOMAIN last_logged \/ current_time - last_logged[name] >= COOLDOWN

\* name not in last_logged or (current_time - last_logged[name]) > COOLDOWN
cooldown_over(last_logged, name, current_time) ==
    name \notin DOMAIN last_logged \/ current_time - last_logged[name] > COOLDOWN

\* lines 71-78 of run.py for one face: a row is appended to the attendance
\* file and last_logged[name] set when the name is known and its cooldown
\* is over; first_seen remembers the reading at a name's first recognition
mark_face(c, name, current_time) ==
    IF name = Unknown THEN c
    ELSE LET seen == [c EXCEPT !.first_seen = IF name \in DOMAIN @ THEN @
                                              ELSE Put(@, name, current_time)]
         IN  IF cooldown_over(c.last_logged, name, current_time)
             THEN [seen EXCEPT !.rows = Append(@, [name |-> name, at |-> current_time]),
                               !.last_logged = Put(@, name, current_time)]
             ELSE seen

\* the for loop of lines 63-82 over the faces of one frame
RECURSIVE mark_faces(_, _, _)
mark_faces(c, names, current_time) ==
    IF names = <<>> THEN c
    ELSE mark_faces(mark_face(c, Head(names), current_time), Tail(names), current_time)

\* one iteration of the loop of run.py with the faces found in the frame
attendance_loop(c, read_ok, raises, names, current_time) ==
    IF ~ read_ok THEN release_and_exit(c)
    ELSE IF raises THEN exit_by_exception(c)
    ELSE wait_key([mark_faces(c, names, current_time) EXCEPT !.shown = TRUE])

----------------------------------------------------------------------------
(* Inputs *)

\* approach names that occur in configurations
ApproachNames == {"mediapipe", "smolvlm", "a", "b"}

\* an 'approaches' mapping registering the names in S
ApproachTable(S) == [a \in S |-> [module |-> a, main_function |-> "main"]]

\* configurations handed to validate_config: every key present or absent
ValidateConfigs ==
    LET ModeParts == {EmptyDict} \cup {("mode" :> m) : m \in {"static", "dynamic", "hybrid"}}
        ApproachParts == {EmptyDict} \cup {("approach" :> a) : a \in {"mediapipe", "smolvlm", "a"}}
        ApproachesParts == {EmptyDict} \cup {("approaches" :> ApproachTable(S)) : S \in SUBSET ApproachNames}
        DynamicParts == {EmptyDict} \cup
                        {("dynamic" :> d) : d \in {EmptyDict, [enabled |-> FALSE], [enabled |-> TRUE]}}
    IN  {m @@ a @@ t @@ d : m \in ModeParts, a \in ApproachParts,
                            t \in ApproachesParts, d \in DynamicParts}

\* metric samples, in tenths: one within every default and configured limit,
\* one breaching each limit alone, and one with only the latency key
GoodSample == [latency_ms |-> 1000, cpu_percent |-> 500, memory_mb |-> 5000, fps |-> 300]
SlowSample == [latency_ms |-> 9000, cpu_percent |-> 500, memory_mb |-> 5000, fps |-> 300]
HotSample == [latency_ms |-> 1000, cpu_percent |-> 900, memory_mb |-> 5000, fps |-> 300]
BigSample == [latency_ms |-> 1000, cpu_percent |-> 500, memory_mb |-> 25000, fps |-> 300]
StallSample == [latency_ms |-> 1000, cpu_percent |-> 500, memory_mb |-> 5000, fps |-> 5]
LatencyOnlySample == [latency_ms |-> 1000]

Samples == {GoodSample, SlowSample, HotSample, BigSample, StallSample, LatencyOnlySample}

\* the thresholds of the spec's scenario: only max_latency_ms = 500 is configured
ScenarioThresholds == [max_latency_ms |-> 5000]
ScenarioSamples == {GoodSample, SlowSample}

\* threshold mappings: all defaults, the scenario's, and all four keys configured
ThresholdChoices ==
    {EmptyDict, ScenarioThresholds,
     [max_latency_ms |-> 5000, max_cpu_percent |-> 700, max_memory_mb |-> 15000, min_fps |-> 100]}

\* bounds
MaxWin == 3
MaxFed == 5
ScenarioFed == 10
MaxElapsed == 4
MaxSkew == 1
MaxOpsWin == 2
MaxOpsFed == 1
MaxAdviseFed == 3
MaxInvoked == 2
\* the largest num_images handed to register_face
MaxImages == 2
\* the most faces in one frame; the cooldown periods an attendance run spans
\* and the seconds past each that the clock is read at
MaxFaces == 2
MaxPeriods == 1
MaxSlack == 1

\* the first clock reading: seconds since the epoch, beyond every cooldown
ClockStart == 10

\* engine configurations: static, and dynamic with cooldown absent, 0 and 2
EngineConfigs ==
    LET Base == [approach |-> "mediapipe",
                 approaches |-> ApproachTable({"mediapipe", "smolvlm"})]
    IN  {Base @@ ("mode" :> "static")} \cup
        {Base @@ ("mode" :> "dynamic") @@ ("dynamic" :> d) :
            d \in {[enabled |-> TRUE],
                   [enabled |-> TRUE, switch_cooldown_seconds |-> 0],
                   [enabled |-> TRUE, switch_cooldown_seconds |-> 2]}}

\* targets of switch_approach: the registered names and one that is not
SwitchTargets == {"mediapipe", "smolvlm", "a"}

\* no switch_approach call has been made yet
NoCall == [id |-> 0, to |-> NoneVal, end |-> 0, ret |-> FALSE, raised |-> FALSE,
           prev_ret |-> FALSE]

\* no other engine operation has been called yet
NoOp == [name |-> NoneVal, ret |-> NoneVal, exc |-> "none",
         imported |-> "ok", has_function |-> TRUE, ran |-> "return", called |-> <<>>]

\* the attributes of an engine that has not been constructed
NoEngine == EmptyDict

\* no engine process and no capture script is running
NoProc == [pc |-> "none", file |-> NoneVal, exit |-> 0, returned |-> FALSE]
NoCam == [script |-> NoneVal, pc |-> "none", opened |-> FALSE, releases |-> 0, key |-> "none",
          iter |-> 0, shown |-> FALSE, count |-> 0, num_images |-> 0, raised |-> FALSE,
          saved |-> <<>>, last_logged |-> EmptyDict, rows |-> <<>>, first_seen |-> EmptyDict]

\* the orders in which a mapping with the keys S can have been filled
Orders(S) ==
    {f \in [1..Cardinality(S) -> S] : \A i, j \in 1..Cardinality(S) : i # j => f[i] # f[j]}

\* the possible key orders of config['approaches']
KeyOrders(c) == Orders(DOMAIN Get(c, "approaches", EmptyDict))

----------------------------------------------------------------------------
(* validate_config applied to one configuration *)

InitValidate ==
    /\ config \in ValidateConfigs
    /\ pc = "start"
    /\ valid_ret = FALSE
    /\ thresholds = EmptyDict
    /\ window_size = DefaultWindowSize
    /\ history = EmptyHistory
    /\ fed = <<>>
    /\ engine = EngineInit(EmptyDict)
    /\ clock = ClockStart
    /\ call = NoCall
    /\ key_order = <<>>
    /\ op = NoOp
    /\ invoked = <<>>
    /\ proc = NoProc
    /\ cam = NoCam

ValidateConfig ==
    /\ pc = "start"
    /\ valid_ret' = validate_config(config)
    /\ pc' = "done"
    /\ UNCHANGED <<config, thresholds, window_size, history, fed, engine, clock, call>>
    /\ UNCHANGED others

NextValidate == ValidateConfig

SpecValidate == InitValidate /\ [][NextValidate]_vars

----------------------------------------------------------------------------
(* a PerformanceMonitor fed with samples *)

InitMonitor ==
    /\ \/ thresholds \in ThresholdChoices /\ window_size \in 1..MaxWin
       \/ thresholds = ScenarioThresholds /\ window_size = DefaultWindowSize
    /\ history = EmptyHistory
    /\ fed = <<>>
    /\ config = EmptyDict
    /\ pc = "done"
    /\ valid_ret = FALSE
    /\ engine = EngineInit(EmptyDict)
    /\ clock = ClockStart
    /\ call = NoCall
    /\ key_order = <<>>
    /\ op = NoOp
    /\ invoked = <<>>
    /\ proc = NoProc
    /\ cam = NoCam

\* the samples fed and how many: all kinds to the small windows, the
\* scenario's two kinds to the default window
Record ==
    \E metrics \in Samples :
        /\ IF window_size <= MaxWin
           THEN Len(fed) < MaxFed
           ELSE Len(fed) < ScenarioFed /\ metrics \in ScenarioSamples
        /\ history' = record(history, window_size, metrics)
        /\ fed' = Append(fed, metrics)
        /\ UNCHANGED <<config, pc, valid_ret, thresholds, window_size, engine, clock, call>>
        /\ UNCHANGED others

NextMonitor == Record

SpecMonitor == InitMonitor /\ [][NextMonitor]_vars

----------------------------------------------------------------------------
(* a PerformanceMonitor with any evaluation_window validate_config lets through *)

\* validate_config does not look at dynamic.evaluation_window: 0 reaches
\* PerformanceMonitor.__init__ as window_size like any other value
InitWindow ==
    /\ thresholds \in ThresholdChoices
    /\ window_size \in 0..MaxWin
    /\ history = EmptyHistory
    /\ fed = <<>>
    /\ config = EmptyDict
    /\ pc = "done"
    /\ valid_ret = FALSE
    /\ engine = EngineInit(EmptyDict)
    /\ clock = ClockStart
    /\ call = NoCall
    /\ key_order = <<>>
    /\ op = NoOp
    /\ invoked = <<>>
    /\ proc = NoProc
    /\ cam = NoCam

SpecWindow == InitWindow /\ [][NextMonitor]_vars

----------------------------------------------------------------------------
(* an engine, the clock and switch_approach calls *)

Init ==
    /\ config \in EngineConfigs
    /\ pc = "ready"
    /\ valid_ret = validate_config(config)
    /\ thresholds = MonitorThresholds(config)
    /\ window_size = MonitorWindow(config)
    /\ history = EmptyHistory
    /\ fed = <<>>
    /\ engine = EngineInit(config)
    /\ clock = ClockStart
    /\ call = NoCall
    /\ key_order \in KeyOrders(config)
    /\ op = NoOp
    /\ invoked = <<>>
    /\ proc = NoProc
    /\ cam = NoCam

\* time passes
Tick ==
    /\ clock < ClockStart + MaxElapsed
    /\ clock' = clock + 1
    /\ UNCHANGED <<config, pc, valid_ret, thresholds, window_size, history, fed, engine, call>>
    /\ UNCHANGED others

\* the system clock that time.time() reads is set back
SetBack ==
    /\ clock > ClockStart
    /\ clock' = clock - 1
    /\ UNCHANGED <<config, pc, valid_ret, thresholds, window_size, history, fed, engine, call>>
    /\ UNCHANGED others

\* one switch_approach(from_approach, to_approach) call; the second
\* time.time() reading, made on the success path in dynamic mode, may be later
SwitchApproach ==
    \E from_approach \in SwitchTargets \cup {NoneVal}, to_approach \in SwitchTargets,
       skew \in 0..MaxSkew :
        LET out == switch_approach(engine, config, to_approach, clock, clock + skew)
            reads_again == out.ret /\ Get(config, "mode", NoneVal) = "dynamic"
        IN  /\ pc = "ready"
            /\ reads_again \/ skew = 0
            /\ clock + skew <= ClockStart + MaxElapsed
            /\ engine' = out.self
            /\ clock' = clock + skew
            /\ call' = [id |-> 1 - call.id, to |-> to_approach, end |-> clock + skew,
                        ret |-> out.ret, raised |-> out.raised, prev_ret |-> call.ret]
            /\ UNCHANGED <<config, pc, valid_ret, thresholds, window_size, history, fed>>
            /\ UNCHANGED others

Next == Tick \/ SetBack \/ SwitchApproach

Spec == Init /\ [][Next]_vars

----------------------------------------------------------------------------
(* an engine and every operation on it *)

\* 'approaches' mappings: both approaches, one, three, and one whose
\* descriptor for mediapipe names no module
FullTable == ApproachTable({"mediapipe", "smolvlm"})
SingleTable == ApproachTable({"mediapipe"})
TripleTable == ApproachTable({"mediapipe", "smolvlm", "a"})
NoModuleTable == [mediapipe |-> [main_function |-> "run"], smolvlm |-> FullTable["smolvlm"]]

\* the 'dynamic' record: enabled, no cooldown, the scenario's thresholds, window w
DynamicRecord(w) ==
    [enabled |-> TRUE, switch_cooldown_seconds |-> 0,
     performance_thresholds |-> ScenarioThresholds, evaluation_window |-> w]

\* configurations that pass validate_config: static ones whose approach does
\* and does not name a module, and dynamic ones with and without the
\* 'approach' and 'approaches' keys
OpsConfigs ==
    {[mode |-> "static", approach |-> a, approaches |-> NoModuleTable] :
        a \in {"mediapipe", "smolvlm"}}
    \cup
    {ap @@ [mode |-> "dynamic", approaches |-> FullTable, dynamic |-> DynamicRecord(1)] :
        ap \in {EmptyDict, [approach |-> "smolvlm"]}}
    \cup
    {[mode |-> "dynamic", dynamic |-> DynamicRecord(1)]}

\* the attributes, the monitor and the observers right after __init__; no
\* time passes in these specifications, the clock stays at its last reading
InitEngine ==
    /\ key_order \in KeyOrders(config)
    /\ pc = "ready"
    /\ valid_ret = validate_config(config)
    /\ thresholds = MonitorThresholds(config)
    /\ window_size = MonitorWindow(config)
    /\ history = EmptyHistory
    /\ fed = <<>>
    /\ engine = EngineInit(config)
    /\ clock = ClockStart + MaxElapsed
    /\ call = NoCall
    /\ op = NoOp
    /\ invoked = <<>>
    /\ proc = NoProc
    /\ cam = NoCam

\* the configuration has been loaded; nothing else has run
InitOps ==
    /\ config \in OpsConfigs
    /\ key_order \in KeyOrders(config)
    /\ pc = "start"
    /\ valid_ret = FALSE
    /\ thresholds = EmptyDict
    /\ window_size = DefaultWindowSize
    /\ history = EmptyHistory
    /\ fed = <<>>
    /\ engine = NoEngine
    /\ clock = ClockStart + MaxElapsed
    /\ call = NoCall
    /\ op = NoOp
    /\ invoked = <<>>
    /\ proc = NoProc
    /\ cam = NoCam

\* GestureRecognitionEngine(config) on a configuration that passed validation
Construct ==
    /\ pc = "done"
    /\ valid_ret
    /\ pc' = "ready"
    /\ engine' = EngineInit(config)
    /\ thresholds' = MonitorThresholds(config)
    /\ window_size' = MonitorWindow(config)
    /\ history' = EmptyHistory
    /\ config' = IF Get(config, "mode", NoneVal) = "dynamic"
                 THEN config_after_get(config, "dynamic")
                 ELSE config_after_get(config, "mode")
    /\ UNCHANGED <<valid_ret, fed, clock, call, key_order, op, invoked, proc, cam>>

\* a caller feeds at most limit samples to the engine's monitor, when there is one
RecordEngine(limit) ==
    \E metrics \in ScenarioSamples :
        /\ pc = "ready"
        /\ engine["performance_monitor"] # NoneVal
        /\ Len(fed) < limit
        /\ history' = record(history, window_size, metrics)
        /\ fed' = Append(fed, metrics)
        /\ UNCHANGED <<config, pc, valid_ret, thresholds, window_size, engine, clock, call>>
        /\ UNCHANGED others

RecordOps == RecordEngine(MaxOpsFed)

\* the record of an operation that imports and runs nothing
Observed(name, ret, exc) ==
    [name |-> name, ret |-> ret, exc |-> exc,
     imported |-> "ok", has_function |-> TRUE, ran |-> "return", called |-> <<>>]

GetAvailableApproaches ==
    /\ pc = "ready"
    /\ op' = Observed("get_available_approaches", NoneVal, "none")
    /\ config' = config_after_get(config, "approaches")
    /\ UNCHANGED <<pc, valid_ret, thresholds, window_size, history, fed, engine, clock, call,
                   key_order, invoked, proc, cam>>

ShouldSwitchDynamically ==
    LET out == should_switch_dynamically(engine, config, key_order,
                                         history, window_size, thresholds)
    IN  /\ pc = "ready"
        /\ op' = Observed("should_switch_dynamically", out.ret, out.exc)
        /\ config' = config_after_get(config, "approaches")
        /\ UNCHANGED <<pc, valid_ret, thresholds, window_size, history, fed, engine, clock,
                       call, key_order, invoked, proc, cam>>

\* one of the three execute methods, with what the import and the entry point do
Executed(name, out, imported, has_function, ran) ==
    /\ pc = "ready"
    /\ Len(invoked) + Len(out.called) <= MaxInvoked
    /\ engine' = out.self
    /\ invoked' = invoked \o out.called
    /\ op' = [name |-> name, ret |-> NoneVal, exc |-> out.exc,
              imported |-> imported, has_function |-> has_function, ran |-> ran,
              called |-> out.called]
    /\ config' = config_after_get(config, "approaches")
    /\ UNCHANGED <<pc, valid_ret, thresholds, window_size, history, fed, clock, call,
                   key_order, proc, cam>>

\* what the import and the entry point do: the later inputs matter only
\* when the earlier steps succeeded
Outcomes ==
    {o \in ImportOutcomes \X BOOLEAN \X RunOutcomes :
        /\ o[1] # "ok" => o[2]
        /\ (o[1] # "ok" \/ ~ o[2]) => o[3] = "return"}

ExecuteStaticMode ==
    \E imported \in ImportOutcomes, has_function \in BOOLEAN, ran \in RunOutcomes :
        /\ <<imported, has_function, ran>> \in Outcomes
        /\ Executed("execute_static_mode",
                    execute_static_mode(engine, config, key_order, imported, has_function, ran),
                    imported, has_function, ran)

ExecuteDynamicMode ==
    \E imported \in ImportOutcomes, has_function \in BOOLEAN, ran \in RunOutcomes :
        /\ <<imported, has_function, ran>> \in Outcomes
        /\ Executed("execute_dynamic_mode",
                    execute_dynamic_mode(engine, config, key_order, imported, has_function, ran),
                    imported, has_function, ran)

Execute ==
    \E imported \in ImportOutcomes, has_function \in BOOLEAN, ran \in RunOutcomes :
        /\ <<imported, has_function, ran>> \in Outcomes
        /\ Executed("execute",
                    execute(engine, config, key_order, imported, has_function, ran),
                    imported, has_function, ran)

NextOps ==
    \/ ValidateConfig
    \/ Construct
    \/ RecordOps
    \/ SwitchApproach
    \/ GetAvailableApproaches
    \/ ShouldSwitchDynamically
    \/ ExecuteStaticMode
    \/ ExecuteDynamicMode
    \/ Execute

SpecOps == InitOps /\ [][NextOps]_vars

----------------------------------------------------------------------------
(* a dynamic engine, its monitor and the switch advice *)

AdviseConfigs ==
    {[mode |-> "dynamic", approach |-> "mediapipe", approaches |-> t,
      dynamic |-> DynamicRecord(w)] :
        t \in {FullTable, SingleTable, TripleTable}, w \in 1..MaxOpsWin}
    \cup
    {[mode |-> "static", approach |-> "mediapipe", approaches |-> FullTable]}

InitAdvise ==
    /\ config \in AdviseConfigs
    /\ InitEngine

RecordAdvise == RecordEngine(MaxAdviseFed)

NextAdvise ==
    \/ RecordAdvise
    \/ SwitchApproach
    \/ ShouldSwitchDynamically

SpecAdvise == InitAdvise /\ [][NextAdvise]_vars

----------------------------------------------------------------------------
(* main(): load the configuration, validate it, construct an engine, execute *)

\* a process about to call main(); config is what the file holds when it parses
InitMain ==
    /\ \E file \in FileStates :
         /\ proc = [pc |-> "start", file |-> file, exit |-> 0, returned |-> FALSE]
         /\ IF load_config_returns(file) THEN config \in ValidateConfigs ELSE config = EmptyDict
    /\ key_order \in KeyOrders(config)
    /\ pc = "start"
    /\ valid_ret = FALSE
    /\ thresholds = EmptyDict
    /\ window_size = DefaultWindowSize
    /\ history = EmptyHistory
    /\ fed = <<>>
    /\ engine = NoEngine
    /\ clock = ClockStart
    /\ call = NoCall
    /\ op = NoOp
    /\ invoked = <<>>
    /\ cam = NoCam

\* config = load_config()
MainLoadConfig ==
    /\ proc.pc = "start"
    /\ proc' = IF load_config_returns(proc.file)
               THEN [proc EXCEPT !.pc = "loaded"]
               ELSE exited(proc.file, 1, FALSE)
    /\ UNCHANGED <<config, pc, valid_ret, thresholds, window_size, history, fed, engine,
                   clock, call, key_order, op, invoked, cam>>

\* if not validate_config(config): sys.exit(1)
MainValidate ==
    /\ proc.pc = "loaded"
    /\ valid_ret' = validate_config(config)
    /\ pc' = "done"
    /\ proc' = IF validate_config(config)
               THEN [proc EXCEPT !.pc = "validated"]
               ELSE exited(proc.file, 1, FALSE)
    /\ UNCHANGED <<config, thresholds, window_size, history, fed, engine,
                   clock, call, key_order, op, invoked, cam>>

\* engine = GestureRecognitionEngine(config)
MainConstruct ==
    /\ proc.pc = "validated"
    /\ pc' = "ready"
    /\ engine' = EngineInit(config)
    /\ thresholds' = MonitorThresholds(config)
    /\ window_size' = MonitorWindow(config)
    /\ proc' = [proc EXCEPT !.pc = "constructed"]
    /\ UNCHANGED <<config, valid_ret, history, fed, clock, call, key_order, op, invoked, cam>>

\* try: engine.execute(), with what the import and the entry point do
MainExecute ==
    \E imported \in ImportOutcomes, has_function \in BOOLEAN, ran \in RunOutcomes :
        LET out == execute(engine, config, key_order, imported, has_function, ran)
        IN  /\ proc.pc = "constructed"
            /\ <<imported, has_function, ran>> \in Outcomes
            /\ engine' = out.self
            /\ invoked' = invoked \o out.called
            /\ op' = [name |-> "execute", ret |-> NoneVal, exc |-> out.exc,
                      imported |-> imported, has_function |-> has_function, ran |-> ran,
                      called |-> out.called]
            /\ proc' = main_after_execute(proc.file, out.exc)
            /\ UNCHANGED <<config, pc, valid_ret, thresholds, window_size, history, fed,
                           clock, call, key_order, cam>>

NextMain == MainLoadConfig \/ MainValidate \/ MainConstruct \/ MainExecute

SpecMain == InitMain /\ [][NextMain]_vars

----------------------------------------------------------------------------
(* the capture scripts: open the camera, loop over frames and keys, release *)

\* a script about to open the camera; register_face is asked for num_images
InitCamera ==
    /\ \E script \in CameraScripts, n \in 0..MaxImages :
         /\ script # "register_fac.py" => n = 0
         /\ cam = [NoCam EXCEPT !.script = script, !.pc = "start", !.num_images = n]
    /\ config = EmptyDict
    /\ pc = "start"
    /\ valid_ret = FALSE
    /\ thresholds = EmptyDict
    /\ window_size = DefaultWindowSize
    /\ history = EmptyHistory
    /\ fed = <<>>
    /\ engine = NoEngine
    /\ clock = ClockStart
    /\ call = NoCall
    /\ key_order = <<>>
    /\ op = NoOp
    /\ invoked = <<>>
    /\ proc = NoProc

\* cv2.VideoCapture(...) and the isOpened() test, up to the first loop test
OpenCamera ==
    \E opened \in BOOLEAN :
        LET c == [cam EXCEPT !.opened = opened]
        IN  /\ cam.pc = "start"
            /\ cam' = IF ~ opened /\ opened_is_checked(cam.script)
                      THEN [c EXCEPT !.pc = "exited"]
                      ELSE IF cam.script = "register_fac.py" /\ ~ (c.count < c.num_images)
                      THEN release_and_exit(c)
                      ELSE [c EXCEPT !.pc = "loop"]
            /\ UNCHANGED <<config, pc, valid_ret, thresholds, window_size, history, fed,
                           engine, clock, call, key_order, op, invoked, proc>>

\* the user presses a key while the loop runs; it waits for the next waitKey
PressKey ==
    \E k \in Keys :
        /\ cam.pc = "loop"
        /\ cam.key = "none"
        /\ cam' = [cam EXCEPT !.key = k]
        /\ UNCHANGED <<config, pc, valid_ret, thresholds, window_size, history, fed,
                       engine, clock, call, key_order, op, invoked, proc>>

\* one iteration of the script's loop: whether the frame interval has
\* elapsed, whether the read succeeds, whether a call raises, and whether
\* exactly one face is in the frame; a camera that did not open reads nothing
Iterate ==
    \E due \in BOOLEAN, read_ok \in BOOLEAN, raises \in BOOLEAN, one_face \in BOOLEAN :
        LET c == [cam EXCEPT !.iter = 1 - @]
        IN  /\ cam.pc = "loop"
            /\ ~ cam.opened => ~ read_ok
            /\ ~ cam.shown => due
            /\ cam' = IF cam.script \in GestureScripts
                      THEN gesture_loop(c, due, read_ok, raises)
                      ELSE IF cam.script = "register_fac.py"
                      THEN register_loop(c, read_ok, raises, one_face)
                      ELSE frame_loop(c, read_ok, raises)
            /\ UNCHANGED <<config, pc, valid_ret, thresholds, window_size, history, fed,
                           engine, clock, call, key_order, op, invoked, proc>>

NextCamera == OpenCamera \/ PressKey \/ Iterate

SpecCamera == InitCamera /\ [][NextCamera]_vars

----------------------------------------------------------------------------
(* run.py: the attendance loop, the faces it recognises and the clock *)

\* the names of the encodings loaded from the dataset
KnownNames == {"ann", "bob"}

\* the names given to the faces of one frame, in the order they are found
FaceLists ==
    UNION {[1..n -> KnownNames \cup {Unknown}] : n \in 0..MaxFaces}

\* run.py about to open the camera; last_logged is empty
InitAttendance ==
    /\ cam = [NoCam EXCEPT !.script = "run.py", !.pc = "start"]
    /\ config = EmptyDict
    /\ pc = "start"
    /\ valid_ret = FALSE
    /\ thresholds = EmptyDict
    /\ window_size = DefaultWindowSize
    /\ history = EmptyHistory
    /\ fed = <<>>
    /\ engine = NoEngine
    /\ clock = ClockStart
    /\ call = NoCall
    /\ key_order = <<>>
    /\ op = NoOp
    /\ invoked = <<>>
    /\ proc = NoProc

\* the readings of time.time() an attendance run sees: whole cooldown
\* periods after the first, and a few seconds past each
Readings ==
    {ClockStart + a * COOLDOWN + b : a \in 0..MaxPeriods, b \in 0..MaxSlack}

\* between two frames time passes, or the system clock that time.time()
\* reads is set back
TimePasses ==
    \E t \in Readings :
        /\ cam.pc = "loop"
        /\ t # clock
        /\ clock' = t
        /\ UNCHANGED <<config, pc, valid_ret, thresholds, window_size, history, fed,
                       engine, call, key_order, op, invoked, proc, cam>>

\* one iteration of the loop of run.py: the read, the faces recognised in
\* the frame, the attendance rows, the key
AttendFrame ==
    \E read_ok \in BOOLEAN, raises \in BOOLEAN, names \in FaceLists :
        /\ cam.pc = "loop"
        /\ ~ cam.opened => ~ read_ok
        /\ cam' = attendance_loop([cam EXCEPT !.iter = 1 - @], read_ok, raises, names, clock)
        /\ UNCHANGED <<config, pc, valid_ret, thresholds, window_size, history, fed,
                       engine, clock, call, key_order, op, invoked, proc>>

NextAttendance == OpenCamera \/ PressKey \/ TimePasses \/ AttendFrame

SpecAttendance == InitAttendance /\ [][NextAttendance]_vars

----------------------------------------------------------------------------
(* Properties of validate_config (SpecValidate) *)

\* C1 as stated: in static mode validate_config returns true exactly when
\* 'approach' is a key of 'approaches', for any approach identifier.
C1_AsStated ==
    (pc = "done" /\ Get(config, "mode", NoneVal) = "static")
        => (valid_ret = (Get(config, "approach", NoneVal)
                            \in DOMAIN Get(config, "approaches", EmptyDict)))

\* C1 (amended): in static mode validate_config returns false when 'approach'
\* is not a key of 'approaches', and returns true exactly when it is a key of
\* 'approaches' and is one of the identifiers 'mediapipe' and 'smolvlm'.
C1_StaticApproach ==
    (pc = "done" /\ Get(config, "mode", NoneVal) = "static")
        => (valid_ret = (/\ Get(config, "approach", NoneVal) \in {"mediapipe", "smolvlm"}
                         /\ Get(config, "approach", NoneVal)
                                \in DOMAIN Get(config, "approaches", EmptyDict)))

C1_Witness ==
    /\ pc = "done"
    /\ Get(config, "mode", NoneVal) = "static"
    /\ Get(config, "approach", NoneVal) = "smolvlm"
    /\ DOMAIN Get(config, "approaches", EmptyDict) = {"mediapipe", "smolvlm"}
    /\ valid_ret

\* C2: whenever 'mode' is missing or is neither 'static' nor 'dynamic',
\* validate_config returns false, whatever the other keys hold.
C2_BadModeFails ==
    (pc = "done" /\ ("mode" \notin DOMAIN config \/ config["mode"] \notin {"static", "dynamic"}))
        => ~ valid_ret

C2_Witness ==
    /\ pc = "done"
    /\ "mode" \in DOMAIN config /\ config["mode"] = "hybrid"
    /\ Get(config, "approach", NoneVal) = "mediapipe"
    /\ "mediapipe" \in DOMAIN Get(config, "approaches", EmptyDict)
    /\ "dynamic" \in DOMAIN config /\ Get(config["dynamic"], "enabled", FALSE)
    /\ ~ valid_ret

\* C3: in dynamic mode validate_config returns true when dynamic.enabled is
\* true, and false when it is false or the 'dynamic' record or its 'enabled'
\* key is absent.
C3_DynamicEnabled ==
    (pc = "done" /\ Get(config, "mode", NoneVal) = "dynamic")
        => (valid_ret = (/\ "dynamic" \in DOMAIN config
                         /\ "enabled" \in DOMAIN config["dynamic"]
                         /\ config["dynamic"]["enabled"] = TRUE))

C3_Witness ==
    /\ pc = "done"
    /\ Get(config, "mode", NoneVal) = "dynamic"
    /\ "dynamic" \in DOMAIN config
    /\ "enabled" \notin DOMAIN config["dynamic"]
    /\ ~ valid_ret

----------------------------------------------------------------------------
(* Properties of PerformanceMonitor (SpecMonitor) *)

\* C4: while fewer than window_size samples have been recorded on a fresh
\* monitor, should_switch returns false, whatever the samples and thresholds.
C4_ColdStart ==
    Len(fed) < window_size => ~ should_switch(history, window_size, thresholds)

C4_Witness ==
    /\ Len(fed) >= 1
    /\ Len(fed) < window_size
    /\ \A i \in 1..Len(fed) : fed[i] = SlowSample
    /\ thresholds = ScenarioThresholds
    /\ ~ should_switch(history, window_size, thresholds)

\* C5: once at least window_size samples have been recorded, should_switch
\* returns true exactly when, over the last window_size samples fed, the mean
\* latency exceeds max_latency_ms, or the mean CPU exceeds max_cpu_percent, or
\* the mean memory exceeds max_memory_mb, or the mean FPS is below min_fps,
\* with the defaults 1000, 80, 2000 and 0.8 for absent threshold keys.
C5_SwitchIffBreach ==
    Len(fed) >= window_size =>
        LET n == window_size
            last == [i \in 1..n |-> fed[Len(fed) - n + i]]
            total(k) == Sum([i \in 1..n |-> IF k \in DOMAIN last[i] THEN last[i][k] ELSE 0])
            limit(k, d) == IF k \in DOMAIN thresholds THEN thresholds[k] ELSE d
        IN  should_switch(history, window_size, thresholds)
              = (\/ total("latency_ms") > limit("max_latency_ms", 10000) * n
                 \/ total("cpu_percent") > limit("max_cpu_percent", 800) * n
                 \/ total("memory_mb") > limit("max_memory_mb", 20000) * n
                 \/ total("fps") < limit("min_fps", 8) * n)

C5_Witness ==
    /\ Len(fed) > window_size
    /\ thresholds = EmptyDict
    /\ fed[Len(fed) - window_size] = GoodSample
    /\ \A i \in 1..window_size : fed[Len(fed) - window_size + i] = HotSample
    /\ should_switch(history, window_size, thresholds)

\* C6 as stated: after window_size + k samples, get_average_metrics is, for
\* each of the four metrics, the mean of exactly the last window_size samples
\* fed; with window 5 and max_latency_ms 500, latencies 100 x 5 then 900
\* average 220 with should_switch false, and should_switch is true only once
\* all five entries are 900.
C6_AsStated ==
    /\ Len(fed) >= window_size =>
        \A k \in MetricKeys :
            LET n == window_size
                total == Sum([i \in 1..n |-> IF k \in DOMAIN fed[Len(fed) - n + i]
                                             THEN fed[Len(fed) - n + i][k] ELSE 0])
                avg == get_average_metrics(history)[k]
            IN  avg[1] * n = total * avg[2]
    /\ (/\ window_size = 5
        /\ thresholds = ScenarioThresholds
        /\ Len(fed) > 5
        /\ \A i \in 1..Len(fed) : fed[i] = (IF i <= 5 THEN GoodSample ELSE SlowSample))
        => /\ Len(fed) = 6 => get_average_metrics(history)["latency_ms"][1]
                                = 2200 * get_average_metrics(history)["latency_ms"][2]
           /\ should_switch(history, window_size, thresholds) = (Len(fed) >= 10)

\* C6 (amended): after window_size + k samples, get_average_metrics is, for
\* each of the four metrics, the mean of exactly the last window_size samples
\* fed; with window 5 and max_latency_ms 500, latencies 100 x 5 then 900
\* average 260 with should_switch false, and should_switch is true from the
\* third 900 on (average 580), so also when all five entries are 900.
C6_WindowMean ==
    /\ Len(fed) >= window_size =>
        \A k \in MetricKeys :
            LET n == window_size
                total == Sum([i \in 1..n |-> IF k \in DOMAIN fed[Len(fed) - n + i]
                                             THEN fed[Len(fed) - n + i][k] ELSE 0])
                avg == get_average_metrics(history)[k]
            IN  avg[1] * n = total * avg[2]
    /\ (/\ window_size = 5
        /\ thresholds = ScenarioThresholds
        /\ Len(fed) > 5
        /\ \A i \in 1..Len(fed) : fed[i] = (IF i <= 5 THEN GoodSample ELSE SlowSample))
        => /\ Len(fed) = 6 => get_average_metrics(history)["latency_ms"][1]
                                = 2600 * get_average_metrics(history)["latency_ms"][2]
           /\ Len(fed) = 8 => get_average_metrics(history)["latency_ms"][1]
                                = 5800 * get_average_metrics(history)["latency_ms"][2]
           /\ should_switch(history, window_size, thresholds) = (Len(fed) >= 8)

C6_Witness ==
    /\ window_size = 5
    /\ thresholds = ScenarioThresholds
    /\ fed = <<GoodSample, GoodSample, GoodSample, GoodSample, GoodSample, SlowSample>>
    /\ history["latency_ms"] = <<1000, 1000, 1000, 1000, 9000>>
    /\ ~ should_switch(history, window_size, thresholds)

----------------------------------------------------------------------------
(* Properties of switch_approach (Spec) *)

\* C7: in dynamic mode, when a switch_approach call to a registered approach
\* follows one that succeeded, it returns false if its clock reading is less
\* than switch_cooldown_seconds after the time the first recorded, and true
\* if it is at least switch_cooldown_seconds after it.
C7_Cooldown ==
    [][(/\ call'.id # call.id
        /\ Get(config, "mode", NoneVal) = "dynamic"
        /\ call.ret
        /\ call'.to \in DOMAIN config["approaches"])
       => (call'.ret = (clock - call.end >= Get(config["dynamic"], "switch_cooldown_seconds", 10)))]_vars

C7_Witness ==
    /\ Get(config, "mode", NoneVal) = "dynamic"
    /\ Get(config["dynamic"], "switch_cooldown_seconds", 10) = 2
    /\ call.prev_ret
    /\ call.ret
    /\ call.to = "mediapipe"

\* C8: in dynamic mode with switch_cooldown_seconds = 0, every switch_approach
\* call to a registered approach succeeds, after any earlier switches and at
\* any clock reading.
C8_ZeroCooldown ==
    (/\ Get(config, "mode", NoneVal) = "dynamic"
     /\ Get(config["dynamic"], "switch_cooldown_seconds", 10) = 0
     /\ call.to \in DOMAIN config["approaches"])
    => call.ret

\* C9: a rejected switch_approach call (unregistered target, or cooldown not
\* elapsed in dynamic mode) returns false without raising and leaves
\* current_approach and last_switch_time as they were before the call.
C9_RejectionKeepsState ==
    [][(/\ call'.id # call.id
        /\ \/ call'.to \notin DOMAIN config["approaches"]
           \/ /\ Get(config, "mode", NoneVal) = "dynamic"
              /\ clock - engine["last_switch_time"] < engine["switch_cooldown"])
       => (/\ ~ call'.ret
           /\ ~ call'.raised
           /\ engine' = engine)]_vars

C9_Witness ==
    /\ Get(config, "mode", NoneVal) = "dynamic"
    /\ ~ call.ret
    /\ ~ call.raised
    /\ call.prev_ret
    /\ call.to = "mediapipe"
    /\ engine["current_approach"] = "smolvlm"

\* C10: a successful switch_approach(from, to) returns true and leaves
\* current_approach = to; in dynamic mode last_switch_time becomes a clock
\* reading taken during the call; in static mode every call to a registered
\* approach succeeds whatever the clock reads, and no last_switch_time
\* attribute exists before or after it.
C10_SuccessUpdatesState ==
    [][call'.id # call.id =>
        /\ call'.ret => engine'["current_approach"] = call'.to
        /\ (call'.ret /\ Get(config, "mode", NoneVal) = "dynamic")
             => (/\ clock <= engine'["last_switch_time"]
                 /\ engine'["last_switch_time"] <= clock')
        /\ Get(config, "mode", NoneVal) = "static"
             => (/\ call'.to \in DOMAIN config["approaches"] => call'.ret
                 /\ "last_switch_time" \notin DOMAIN engine
                 /\ "last_switch_time" \notin DOMAIN engine')]_vars

C10_Witness ==
    /\ Get(config, "mode", NoneVal) = "dynamic"
    /\ call.ret
    /\ call.to = "smolvlm"
    /\ engine["current_approach"] = "smolvlm"
    /\ engine["last_switch_time"] = call.end
    /\ call.end > ClockStart

----------------------------------------------------------------------------
(* Properties of the engine's operations (SpecOps) *)

\* C11, as stated: every step of a constructed engine that is not a
\* switch_approach call leaves current_approach and last_switch_time as they
\* were; the execute methods are among those steps.
C11_AsStated ==
    [][(pc = "ready" /\ call'.id = call.id) =>
        /\ engine'["current_approach"] = engine["current_approach"]
        /\ DOMAIN engine' = DOMAIN engine
        /\ "last_switch_time" \in DOMAIN engine
             => engine'["last_switch_time"] = engine["last_switch_time"]]_vars

\* C11, amended: last_switch_time is changed by switch_approach only;
\* get_available_approaches, should_switch_dynamically and the feeding of the
\* monitor leave current_approach alone as well; the only other writers of
\* current_approach are the execute methods, which leave it at the
\* configuration's 'approach' value (None when the key is missing).
C11_OnlySwitchAndExecute ==
    [][(pc = "ready" /\ call'.id = call.id) =>
        /\ DOMAIN engine' = DOMAIN engine
        /\ "last_switch_time" \in DOMAIN engine
             => engine'["last_switch_time"] = engine["last_switch_time"]
        /\ engine'["current_approach"] # engine["current_approach"]
             => (/\ op'.name \in {"execute_static_mode", "execute_dynamic_mode", "execute"}
                 /\ engine'["current_approach"] = Get(config, "approach", NoneVal))]_vars

\* a successful switch to mediapipe, then execute_static_mode puts the
\* configured smolvlm back
C11_Witness ==
    /\ pc = "ready"
    /\ call.ret
    /\ call.to = "mediapipe"
    /\ op.name = "execute_static_mode"
    /\ Get(config, "approach", NoneVal) = "smolvlm"
    /\ engine["current_approach"] = "smolvlm"

----------------------------------------------------------------------------
(* Properties of the switch advice (SpecAdvise) *)

\* C12: should_switch_dynamically returns None and raises nothing unless the
\* mode is dynamic and the monitor recommends a switch; when it does and some
\* key of 'approaches' differs from current_approach, the value returned is
\* the first such key in the mapping's order.
C12_FirstOtherKey ==
    LET out == should_switch_dynamically(engine, config, key_order,
                                         history, window_size, thresholds)
        recommended == /\ Get(config, "mode", NoneVal) = "dynamic"
                       /\ should_switch(history, window_size, thresholds)
    IN  /\ ~ recommended => (out.ret = NoneVal /\ out.exc = "none")
        /\ (recommended /\ \E i \in DOMAIN key_order : key_order[i] # engine["current_approach"])
             => (/\ out.exc = "none"
                 /\ \E i \in DOMAIN key_order :
                      /\ key_order[i] = out.ret
                      /\ out.ret # engine["current_approach"]
                      /\ \A j \in 1..(i - 1) : key_order[j] = engine["current_approach"])

\* the monitor recommends a switch away from the first of three keys, and the
\* call has returned the second
C12_Witness ==
    /\ should_switch(history, window_size, thresholds)
    /\ Len(key_order) = 3
    /\ engine["current_approach"] = key_order[1]
    /\ op.name = "should_switch_dynamically"
    /\ op.ret = key_order[2]

----------------------------------------------------------------------------
(* Properties of the execute methods (SpecOps) *)

\* C13: with a static configuration whose approach names a module that
\* imports and has the entry point, execute_static_mode calls that approach's
\* entry point exactly once and no other approach's, whatever the entry point
\* then does, and no sample is recorded: a static engine has no monitor.
C13_StaticRunsConfigured ==
    (/\ pc = "ready"
     /\ Get(config, "mode", NoneVal) = "static"
     /\ op.name = "execute_static_mode"
     /\ resolved_module(config, Get(config, "approach", NoneVal)) # NoneVal
     /\ op.imported = "ok"
     /\ op.has_function)
    => (/\ op.called = <<Get(config, "approach", NoneVal)>>
        /\ \A i \in DOMAIN invoked : invoked[i] = Get(config, "approach", NoneVal)
        /\ engine["performance_monitor"] = NoneVal
        /\ fed = <<>>
        /\ history = EmptyHistory)

C13_Witness ==
    /\ Get(config, "mode", NoneVal) = "static"
    /\ Get(config, "approach", NoneVal) = "smolvlm"
    /\ op.name = "execute_static_mode"
    /\ op.imported = "ok"
    /\ op.has_function
    /\ op.ran = "return"
    /\ op.exc = "none"
    /\ invoked = <<"smolvlm">>

\* C14: when the configured approach cannot be resolved (its descriptor has no
\* 'module', the module cannot be imported, or the module lacks the entry
\* point), execute_static_mode returns without raising and calls no entry
\* point. A module whose import ends in sys.exit, as the import of
\* gesture_recognition_smolvlm_only does when its model cannot be loaded,
\* cannot be imported, and the SystemExit leaves execute_static_mode.
C14_UnresolvedReturns ==
    (/\ pc = "ready"
     /\ op.name = "execute_static_mode"
     /\ \/ resolved_module(config, Get(config, "approach", NoneVal)) = NoneVal
        \/ op.imported \in {"ImportError", "Exception", "SystemExit"}
        \/ ~ op.has_function)
    => (/\ op.exc = "none"
        /\ op.called = <<>>)

\* C15: with a validated dynamic configuration, an execute_dynamic_mode call
\* leaves current_approach at the configuration's 'approach', or at
\* 'mediapipe' when the key is absent, calls only that approach's entry
\* point, makes no switch_approach call and records no sample.
C15_DynamicStartsConfigured ==
    [][(/\ pc = "ready"
        /\ validate_config(config)
        /\ Get(config, "mode", NoneVal) = "dynamic"
        /\ op'.name = "execute_dynamic_mode"
        /\ (op' # op \/ invoked' # invoked))
       => (/\ engine'["current_approach"] = Get(config, "approach", DefaultApproach)
           /\ \A i \in DOMAIN op'.called :
                op'.called[i] = Get(config, "approach", DefaultApproach)
           /\ call' = call
           /\ fed' = fed
           /\ history' = history)]_vars

\* C20: the configuration mapping is read-only once loaded: no step of
\* validate_config, the constructor, switch_approach, should_switch_dynamically,
\* get_available_approaches, the execute methods or the monitor adds, removes
\* or replaces a key of it, and the monitor's thresholds stay the mapping the
\* configuration holds.
C20_ConfigReadOnly ==
    [][/\ config' = config
       /\ pc' = "ready" => thresholds' = MonitorThresholds(config)]_vars

\* reads with a default of a key the configuration lacks, a sample recorded
\* and a switch attempted, and the key is still absent
C20_Witness ==
    /\ pc = "ready"
    /\ "approaches" \notin DOMAIN config
    /\ op.name = "execute"
    /\ fed # <<>>
    /\ call # NoCall
    /\ thresholds = ScenarioThresholds

----------------------------------------------------------------------------
(* Properties of main() (SpecMain) *)

\* C16: the process started through main ends with a non-zero exit code and
\* with no entry point called when the configuration file is missing, is not
\* valid JSON, fails validate_config or names an unknown mode; it ends with
\* exit code 0 when the approach it ran was stopped by its quit signal (the
\* entry point returns) or by a keyboard interrupt.
C16_ExitCodes ==
    proc.pc = "exited" =>
        /\ (\/ proc.file \in {"missing", "invalid_json"}
            \/ ~ validate_config(config)
            \/ Get(config, "mode", NoneVal) \notin SupportedModes)
             => (proc.exit # 0 /\ invoked = <<>>)
        /\ (/\ op.name = "execute"
            /\ op.called # <<>>
            /\ op.ran \in {"return", "KeyboardInterrupt"})
             => proc.exit = 0

\* a keyboard interrupt stops the running approach and the process ends with 0
C16_Witness ==
    /\ proc.pc = "exited"
    /\ op.name = "execute"
    /\ op.called = <<"smolvlm">>
    /\ op.ran = "KeyboardInterrupt"
    /\ proc.exit = 0

\* C19: any error raised while importing or running an approach module,
\* a process-exit request included, is caught by the engine and logged, and
\* main returns normally. SystemExit is not an Exception: the sys.exit(1) of
\* gesture_recognition_smolvlm_only passes both except clauses of
\* execute_static_mode and both of main.
C19_ErrorsCaught ==
    (/\ proc.pc = "exited"
     /\ op.name = "execute"
     /\ \/ op.imported \in {"ImportError", "Exception", "SystemExit"}
        \/ op.called # <<>> /\ op.ran \in {"Exception", "SystemExit"})
    => (/\ op.exc = "none"
        /\ proc.returned
        /\ proc.exit = 0)

----------------------------------------------------------------------------
(* Properties of the capture scripts (SpecCamera) *)

\* C17: in run.py, detect.py, register_fac.py and the two gesture scripts, a
\* camera that was opened has been released exactly once when the script has
\* ended, on every exit path: loop break, quit key, failed read, exception.
\* Only the gesture scripts release in a finally block.
C17_ReleasedOnce ==
    (cam.pc = "exited" /\ cam.opened) => cam.releases = 1

\* C18: in the two gesture loops, an iteration that starts with the quit key
\* pressed ends with the loop left, in every loop state, failing frame reads
\* included. A failed read goes back to the top of the loop before waitKey.
C18_QuitChecked ==
    [][(/\ cam.script \in GestureScripts
        /\ cam.pc = "loop"
        /\ cam.key = "q"
        /\ cam' # cam)
       => cam'.pc = "exited"]_vars

----------------------------------------------------------------------------
(* Properties of the metric windows (SpecWindow) *)

\* C21: after any sequence of record calls, for every evaluation_window
\* validation lets through, 0 included, the four metric windows have equal
\* length, that length is at most window_size, and get_average_metrics gives 0
\* for each metric whose window is empty. With window_size = 0 the trim is
\* history[key][-0:], the whole list, so the windows grow with every sample.
C21_WindowsBounded ==
    /\ \A k, l \in MetricKeys : Len(history[k]) = Len(history[l])
    /\ \A k \in MetricKeys : Len(history[k]) <= window_size
    /\ \A k \in MetricKeys :
         history[k] = <<>> => get_average_metrics(history)[k][1] = 0

----------------------------------------------------------------------------
(* Properties of the switch advice with few approaches (SpecAdvise) *)

\* C22: for every validated dynamic configuration and every reachable engine
\* state, should_switch_dynamically raises nothing and any approach it returns
\* is a key of 'approaches' other than current_approach, also when
\* 'approaches' has a single entry. When the monitor recommends a switch and
\* no key differs from current_approach, [...][0] raises IndexError.
C22_AdviceNeverRaises ==
    LET out == should_switch_dynamically(engine, config, key_order,
                                         history, window_size, thresholds)
    IN  (validate_config(config) /\ Get(config, "mode", NoneVal) = "dynamic")
        => (/\ out.exc = "none"
            /\ out.ret # NoneVal
                 => (/\ out.ret \in DOMAIN Get(config, "approaches", EmptyDict)
                     /\ out.ret # engine["current_approach"]))

----------------------------------------------------------------------------
(* Properties of the attendance loop of run.py (SpecAttendance) *)

\* C23: in one run of run.py, any two attendance rows written for the same
\* name lie more than COOLDOWN = 60 seconds apart on the time.time() readings
\* they were written at, a row is written at the reading at which a name is
\* recognised for the first time, and no row is written for 'Unknown'.
C23_AttendanceCooldown ==
    /\ \A i, j \in DOMAIN cam.rows :
         (i < j /\ cam.rows[i].name = cam.rows[j].name)
            => cam.rows[j].at - cam.rows[i].at > COOLDOWN
    /\ \A n \in DOMAIN cam.first_seen :
         \E i \in DOMAIN cam.rows :
            cam.rows[i] = [name |-> n, at |-> cam.first_seen[n]]
    /\ \A i \in DOMAIN cam.rows : cam.rows[i].name # Unknown

\* ann is marked, is seen again without a row while bob is marked, and is
\* marked again 61 seconds after her first row
C23_Witness ==
    /\ cam.script = "run.py"
    /\ cam.rows = <<[name |-> "ann", at |-> ClockStart],
                    [name |-> "bob", at |-> ClockStart + 1],
                    [name |-> "ann", at |-> ClockStart + COOLDOWN + 1]>>
    /\ cam.first_seen["bob"] = ClockStart + 1

----------------------------------------------------------------------------
(* Properties of register_face (SpecCamera) *)

\* C24: in register_face the count starts at 0 and never exceeds num_images;
\* the files saved are '<name>_0.jpg' up to '<name>_<count - 1>.jpg', each
\* once; an iteration that raises nothing adds exactly 1 to the count, and
\* saves under the count before the addition, when SPACE is pressed in a
\* frame with exactly one face, and leaves the count alone otherwise; and
\* that iteration ends the loop exactly when the read fails, ESC is pressed
\* or the count has reached num_images.
C24_RegisterCount ==
    cam.script = "register_fac.py" =>
        /\ cam.pc = "start" => cam.count = 0
        /\ cam.count <= cam.num_images
        /\ cam.saved = [i \in 1..cam.count |-> i - 1]
        /\ cam.pc = "loop" =>
             /\ cam.count < cam.num_images
             /\ \A read_ok \in BOOLEAN, one_face \in BOOLEAN :
                  LET after == register_loop(cam, read_ok, FALSE, one_face)
                      pressed == read_ok /\ cam.key = "space" /\ one_face
                  IN  /\ after.count = IF pressed THEN cam.count + 1 ELSE cam.count
                      /\ after.saved = IF pressed THEN Append(cam.saved, cam.count)
                                       ELSE cam.saved
                      /\ after.pc = "exited"
                           <=> (\/ ~ read_ok
                                \/ cam.key = "esc"
                                \/ after.count = cam.num_images)

\* both images asked for have been captured and the loop has ended
C24_Witness ==
    /\ cam.script = "register_fac.py"
    /\ cam.pc = "exited"
    /\ cam.num_images = MaxImages
    /\ cam.count = MaxImages
    /\ cam.saved = [i \in 1..MaxImages |-> i - 1]
    /\ cam.releases = 1

====
